---- MODULE Spec2Model ----
(***************************************************************************)
(* Model of src/Duplication_detector.py: QuestionProcessor and main.       *)
(*                                                                         *)
(* A text is a sequence of one-character strings, so that the regular      *)
(* expression of extract_question_id and the substring tests of            *)
(* get_priority work on characters.  A pandas DataFrame is a record        *)
(* [columns, rows]; DataFrames live in a heap of objects, so that a        *)
(* missing .copy() would alias.  Two specifications:                       *)
(*   Spec      main(): process_duplicates, create_priority_mapping,        *)
(*             validate_and_report on a batch of pairs;                    *)
(*   SpecText  extract_question_id and get_priority on one text.           *)
(***************************************************************************)
EXTENDS Integers, Sequences, FiniteSets, TLC

VARIABLES
    file,           \* the source file: [ext, readable, rows]
    pc,             \* position of main
    results,        \* process_duplicates' list `results`
    heap,           \* the DataFrame objects, by reference
    results_df,     \* reference held by main's `results` / results_df
    mapping,        \* reference returned by create_priority_mapping
    consolidated,   \* reference returned by validate_and_report
    written,        \* names of the files written so far
    error,          \* the exception that ended main, or NoError
    question_text,  \* SpecText: the argument
    id_out,         \* SpecText: extract_question_id(question_text)
    priority_out,   \* SpecText: get_priority(question_text)
    tpc             \* SpecText: position

vars == <<file, pc, results, heap, results_df, mapping, consolidated, written,
          error, question_text, id_out, priority_out, tpc>>

pipeline_vars == <<file, pc, results, heap, results_df, mapping, consolidated,
                   written, error>>

text_vars == <<question_text, id_out, priority_out, tpc>>

---------------------------------------------------------------------------
(* Bounds *)

\* pairs in a batch
MaxPairs == 2

\* fragments concatenated into one text of SpecText
MaxFrags == 3

---------------------------------------------------------------------------
(* Python values *)

\* Python's None (no text is this one-element tuple: texts hold single characters)
None == <<"None">>

\* pandas' missing cell (float NaN), for which pd.isna is true
NaN == <<"NaN">>

NotStarted == <<"NotStarted">>

pd_isna(x) == x = NaN

\* truthiness of `q1_id`: None and the empty string are false
Truthy(x) == x # None /\ x # <<>>

UpperChars == <<"A","B","C","D","E","F","G","H","I","J","K","L","M","N","O","P","Q","R","S","T","U","V","W","X","Y","Z">>

LowerChars == <<"a","b","c","d","e","f","g","h","i","j","k","l","m","n","o","p","q","r","s","t","u","v","w","x","y","z">>

UpperSet == {UpperChars[i] : i \in 1..26}

LowerOf == [c \in UpperSet |-> LowerChars[CHOOSE i \in 1..26 : UpperChars[i] = c]]

chr_lower(c) == IF c \in UpperSet THEN LowerOf[c] ELSE c

\* str.lower()
str_lower(s) == [i \in 1..Len(s) |-> chr_lower(s[i])]

\* `p in text` for strings: p occurs in text as a substring
str_in(p, text) ==
    \E i \in 1..(Len(text) - Len(p) + 1) : SubSeq(text, i, i + Len(p) - 1) = p

---------------------------------------------------------------------------
(* extract_question_id: re.search(r'Question ID[:\s]*([a-f0-9]{24})', s, re.IGNORECASE) *)

IdLen == 24

QuestionIdLiteral == <<"Q","u","e","s","t","i","o","n"," ","I","D">>

\* [:\s], the ASCII whitespace that a TLA+ string can write
SepChars == {":", " ", "\t", "\n", "\r", "\f"}

\* [a-f0-9]
HexClass == {"a","b","c","d","e","f","0","1","2","3","4","5","6","7","8","9"}

\* re.IGNORECASE: a character matches a class or a literal when either case of it does
ClassMatches(c) == c \in HexClass \/ chr_lower(c) \in HexClass

LiteralMatches(c, l) == chr_lower(c) = chr_lower(l)

\* the literal 'Question ID' matches at position p
LiteralAt(s, p) ==
    /\ p + Len(QuestionIdLiteral) - 1 <= Len(s)
    /\ \A k \in 1..Len(QuestionIdLiteral) :
          LiteralMatches(s[p + k - 1], QuestionIdLiteral[k])

\* ([a-f0-9]{24}) matches at position q
GroupAt(s, q) ==
    /\ q + IdLen - 1 <= Len(s)
    /\ \A k \in 0..(IdLen - 1) : ClassMatches(s[q + k])

\* the longest run [:\s]* can take from position q
RECURSIVE SepRun(_, _)
SepRun(s, q) ==
    IF q <= Len(s) /\ s[q] \in SepChars THEN 1 + SepRun(s, q + 1) ELSE 0

\* the greedy star gives characters back until the group matches
RECURSIVE Backtrack(_, _, _)
Backtrack(s, q, k) ==
    IF k < 0 THEN None
    ELSE IF GroupAt(s, q + k) THEN SubSeq(s, q + k, q + k + IdLen - 1)
    ELSE Backtrack(s, q, k - 1)

\* the match attempted at start position p: group(1), or None
MatchAt(s, p) ==
    IF LiteralAt(s, p)
    THEN Backtrack(s, p + Len(QuestionIdLiteral), SepRun(s, p + Len(QuestionIdLiteral)))
    ELSE None

\* re.search scans the start positions from the left
RECURSIVE re_search(_, _)
re_search(s, p) ==
    IF p > Len(s) THEN None
    ELSE IF MatchAt(s, p) # None THEN MatchAt(s, p)
    ELSE re_search(s, p + 1)

\* mutant: the last match instead of the first
RECURSIVE re_search_last(_, _)
re_search_last(s, p) ==
    IF p < 1 THEN None
    ELSE IF MatchAt(s, p) # None THEN MatchAt(s, p)
    ELSE re_search_last(s, p - 1)

extract_question_id_last(qt) ==
    IF pd_isna(qt) THEN None ELSE re_search_last(qt, Len(qt))

\* mutant: the character class [a-z0-9] in place of [a-f0-9]
GroupAtWide(s, q) ==
    /\ q + IdLen - 1 <= Len(s)
    /\ \A k \in 0..(IdLen - 1) :
          chr_lower(s[q + k]) \in HexClass \cup {LowerChars[i] : i \in 1..26}

RECURSIVE re_search_wide(_, _)
re_search_wide(s, p) ==
    IF p > Len(s) THEN None
    ELSE IF LiteralAt(s, p) /\ GroupAtWide(s, p + Len(QuestionIdLiteral) + SepRun(s, p + Len(QuestionIdLiteral)))
    THEN SubSeq(s, p + Len(QuestionIdLiteral) + SepRun(s, p + Len(QuestionIdLiteral)),
                   p + Len(QuestionIdLiteral) + SepRun(s, p + Len(QuestionIdLiteral)) + IdLen - 1)
    ELSE re_search_wide(s, p + 1)

extract_question_id_wide(qt) ==
    IF pd_isna(qt) THEN None ELSE re_search_wide(qt, 1)

\* str(question_text) of a text cell is the text itself
extract_question_id(qt) ==
    IF pd_isna(qt) THEN None ELSE re_search(qt, 1)

---------------------------------------------------------------------------
(* get_priority *)

kw_jee_advanced == <<"j","e","e"," ","a","d","v","a","n","c","e","d">>

kw_jee_adv == <<"j","e","e"," ","a","d","v">>

kw_advanced == <<"a","d","v","a","n","c","e","d">>

kw_jee_main == <<"j","e","e"," ","m","a","i","n">>

kw_jee_mains == <<"j","e","e"," ","m","a","i","n","s">>

kw_mains == <<"m","a","i","n","s">>

kw_ncert == <<"n","c","e","r","t">>

AdvancedKeywords == {kw_jee_advanced, kw_jee_adv, kw_advanced}

MainsKeywords == {kw_jee_main, kw_jee_mains, kw_mains}

\* mutant: the NCERT test before the JEE tests
get_priority_ncert_first(qt) ==
    IF pd_isna(qt) THEN 4
    ELSE LET text == str_lower(qt) IN
         IF str_in(kw_ncert, text) THEN 3
         ELSE IF \E p \in AdvancedKeywords : str_in(p, text) THEN 1
         ELSE IF \E p \in MainsKeywords : str_in(p, text) THEN 2
         ELSE 4

get_priority(qt) ==
    IF pd_isna(qt) THEN 4
    ELSE LET text == str_lower(qt) IN
         IF \E p \in AdvancedKeywords : str_in(p, text) THEN 1
         ELSE IF \E p \in MainsKeywords : str_in(p, text) THEN 2
         ELSE IF str_in(kw_ncert, text) THEN 3
         ELSE 4

---------------------------------------------------------------------------
(* SpecText: the two functions on one text *)

F_tagged_lower == <<"Q","u","e","s","t","i","o","n"," ","I","D",":"," ","a","1","b","2","c","3","d","4","e","5","f","6","0","7","1","8","2","9","3","a","4","b","5","c">>

F_label_caps == <<"q","U","E","S","T","I","O","N"," ","i","d">>

F_sep == <<" ",":","\t">>

F_hex_upper == <<"D","E","A","D","B","E","E","F","0","1","2","3","4","5","6","7","8","9","A","B","C","D","E","F">>

F_hex_short == <<"0","f","1","e","2","d","3","c","4","b","5","a">>

F_nonhex == <<"g","h","i","j","k","l","m","n","o","p","q","r","s","t","u","v","w","x","y","z","g","h","i","j">>

F_adv == <<"J","E","E"," ","A","d","v","a","n","c","e","d"," ">>

F_jee_adv == <<" ","J","e","e"," ","A","d","v",",">>

F_mains == <<"M","A","I","N","S">>

F_jee_main == <<"j","e","e"," ","M","a","i","n">>

F_ncert == <<"N","c","e","r","t"," ">>

Fragments == {F_tagged_lower, F_label_caps, F_sep, F_hex_upper, F_hex_short,
              F_nonhex, F_adv, F_jee_adv, F_mains, F_jee_main, F_ncert}

RECURSIVE TextsOf(_)
TextsOf(n) ==
    IF n = 0 THEN {<<>>}
    ELSE LET shorter == TextsOf(n - 1) IN
         shorter \cup {t \o f : t \in shorter, f \in Fragments}

TextInputs == TextsOf(MaxFrags) \cup {NaN}

PipelineIdle ==
    /\ file = NotStarted
    /\ pc = "idle"
    /\ results = <<>>
    /\ heap = <<>>
    /\ results_df = 0
    /\ mapping = 0
    /\ consolidated = 0
    /\ written = {}
    /\ error = "NoError"

InitText ==
    /\ PipelineIdle
    /\ question_text \in TextInputs
    /\ id_out = NotStarted
    /\ priority_out = 0
    /\ tpc = "call"

ExtractStep ==
    /\ tpc = "call"
    /\ id_out' = extract_question_id(question_text)
    /\ tpc' = "extracted"
    /\ UNCHANGED <<question_text, priority_out>>
    /\ UNCHANGED pipeline_vars

PriorityStep ==
    /\ tpc = "extracted"
    /\ priority_out' = get_priority(question_text)
    /\ tpc' = "classified"
    /\ UNCHANGED <<question_text, id_out>>
    /\ UNCHANGED pipeline_vars

NextText == ExtractStep \/ PriorityStep

SpecText == InitText /\ [][NextText]_vars

---------------------------------------------------------------------------
(* pandas: a DataFrame is [columns, rows], a row a function from column names *)

priority_labels ==
    [p \in 1..4 |-> CASE p = 1 -> "JEE Advanced"
                      [] p = 2 -> "JEE Mains"
                      [] p = 3 -> "NCERT"
                      [] OTHER -> "Plain/Other"]

SelectionColumns == <<"selected_question_id", "rejected_question_id",
                      "selected_priority", "rejected_priority", "chosen">>

Range(seq) == {seq[i] : i \in 1..Len(seq)}

\* pd.DataFrame(list of dicts): the columns are the keys; none for an empty list
DataFrame(list) ==
    [columns |-> IF list = <<>> THEN <<>> ELSE SelectionColumns, rows |-> list]

\* DataFrame.empty
df_empty(df) == df.columns = <<>> \/ df.rows = <<>>

\* the rows kept by drop_duplicates(subset=[col]), keep='first'
RECURSIVE KeepFirst(_, _, _)
KeepFirst(rows, col, seen) ==
    IF rows = <<>> THEN <<>>
    ELSE IF Head(rows)[col] \in seen THEN KeepFirst(Tail(rows), col, seen)
    ELSE <<Head(rows)>> \o KeepFirst(Tail(rows), col, seen \cup {Head(rows)[col]})

\* mutant: keep='last'
RECURSIVE KeepLast(_, _)
KeepLast(rows, col) ==
    IF rows = <<>> THEN <<>>
    ELSE IF \E j \in 2..Len(rows) : rows[j][col] = Head(rows)[col]
         THEN KeepLast(Tail(rows), col)
         ELSE <<Head(rows)>> \o KeepLast(Tail(rows), col)

drop_duplicates_last(df, col) ==
    IF df_empty(df) THEN df
    ELSE [columns |-> df.columns, rows |-> KeepLast(df.rows, col)]

\* mutant: keep=False, every row of a duplicated identifier dropped
drop_duplicates_none(df, col) ==
    IF df_empty(df) THEN df
    ELSE [columns |-> df.columns,
          rows |-> SelectSeq(df.rows,
                     LAMBDA r : Cardinality({j \in 1..Len(df.rows) : df.rows[j][col] = r[col]}) = 1)]

\* DataFrame.drop_duplicates(subset=[col]): an empty frame is returned as a copy
\* before the subset is looked at
drop_duplicates(df, col) ==
    IF df_empty(df) THEN df
    ELSE [columns |-> df.columns, rows |-> KeepFirst(df.rows, col, {})]

\* mutant: the whole frame instead of the selected columns
getitem_columns_all(df, cols) == df

\* df[[cols]] on a frame that has the columns
getitem_columns(df, cols) ==
    [columns |-> cols,
     rows |-> [i \in 1..Len(df.rows) |-> [c \in Range(cols) |-> df.rows[i][c]]]]

\* df.rename(columns=ren, inplace=True), ren a function on the columns renamed
rename_columns(df, ren) ==
    LET new(c) == IF c \in DOMAIN ren THEN ren[c] ELSE c IN
    [columns |-> [k \in 1..Len(df.columns) |-> new(df.columns[k])],
     rows |-> [i \in 1..Len(df.rows) |->
                 [c \in {new(x) : x \in Range(df.columns)} |->
                     df.rows[i][CHOOSE x \in Range(df.columns) : new(x) = c]]]]

\* df[col] = values (one value per row)
setitem_column(df, col, values) ==
    [columns |-> IF col \in Range(df.columns) THEN df.columns ELSE Append(df.columns, col),
     rows |-> [i \in 1..Len(df.rows) |->
                 [c \in Range(df.columns) \cup {col} |->
                     IF c = col THEN values[i] ELSE df.rows[i][c]]]]

\* Series.map(dict): a value that is no key maps to NaN
series_map(values, dict) ==
    [i \in 1..Len(values) |-> IF values[i] \in DOMAIN dict THEN dict[values[i]] ELSE NaN]

column_values(df, col) == [i \in 1..Len(df.rows) |-> df.rows[i][col]]

\* a new object on the heap
Alloc(h, df) == [heap |-> Append(h, df), ref |-> Len(h) + 1]

\* mutant: no copy, the same object under a second name
DataFrameAlias(h, ref) == [heap |-> h, ref |-> ref]

\* DataFrame.copy()
DataFrameCopy(h, ref) == Alloc(h, h[ref])

---------------------------------------------------------------------------
(* The cells of the source files of Spec *)

Q_a_advanced == <<"Q","u","e","s","t","i","o","n"," ","I","D",":"," ">> \o [i \in 1..IdLen |-> "a"] \o <<" ","J","E","E"," ","A","d","v","a","n","c","e","d">>

Q_a_plain == <<"q","u","e","s","t","i","o","n"," ","i","d"," ">> \o [i \in 1..IdLen |-> "a"] \o <<" ","p","l","a","i","n">>

Q_b_ncert == <<"Q","u","e","s","t","i","o","n"," ","I","D",":"," ">> \o [i \in 1..IdLen |-> "b"] \o <<" ","N","C","E","R","T">>

Q_B_mains == <<"Q","u","e","s","t","i","o","n"," ","I","D",":">> \o [i \in 1..IdLen |-> "B"] \o <<" ","m","a","i","n","s">>

Q_untagged == <<"n","o"," ","i","d","e","n","t","i","f","i","e","r",","," ","N","c","e","r","t">>

Q_c_mains == <<"s","e","e"," ","Q","u","e","s","t","i","o","n"," ","I","D"," ">> \o [i \in 1..IdLen |-> "c"] \o <<","," ","J","E","E"," ","M","a","i","n","s">>

Cells == {Q_a_advanced, Q_a_plain, Q_b_ncert, Q_B_mains, Q_c_mains, Q_untagged, NaN}

\* extract_question_id(cell) and get_priority(cell), evaluated once per cell
IdOfCell == [c \in Cells |-> extract_question_id(c)]

PriorityOfCell == [c \in Cells |-> get_priority(c)]

---------------------------------------------------------------------------
(* process_duplicates *)

\* mutant: a tie goes to question_2
select_strict(q1_id, q2_id, q1_p, q2_p) ==
    IF q1_p < q2_p
    THEN [selected_question_id |-> q1_id, rejected_question_id |-> q2_id,
          selected_priority |-> q1_p, rejected_priority |-> q2_p, chosen |-> "question_1"]
    ELSE [selected_question_id |-> q2_id, rejected_question_id |-> q1_id,
          selected_priority |-> q2_p, rejected_priority |-> q1_p, chosen |-> "question_2"]

\* lines 66-77: the dict appended for a pair with both identifiers
select(q1_id, q2_id, q1_p, q2_p) ==
    IF q1_p <= q2_p
    THEN [selected_question_id |-> q1_id, rejected_question_id |-> q2_id,
          selected_priority |-> q1_p, rejected_priority |-> q2_p, chosen |-> "question_1"]
    ELSE [selected_question_id |-> q2_id, rejected_question_id |-> q1_id,
          selected_priority |-> q2_p, rejected_priority |-> q1_p, chosen |-> "question_2"]

HasPairColumns(row) == {"question_1", "question_2"} \subseteq DOMAIN row

\* lines 61-77 for the rows in order: the list `results`, or "KeyError" at the
\* first row without a question_1 or question_2 cell
RECURSIVE iterrows(_, _)
iterrows(rows, acc) ==
    IF rows = <<>> THEN acc
    ELSE LET row == Head(rows) IN
         IF ~HasPairColumns(row) THEN "KeyError"
         ELSE LET q1_id == IdOfCell[row["question_1"]]
                  q2_id == IdOfCell[row["question_2"]]
                  q1_p == PriorityOfCell[row["question_1"]]
                  q2_p == PriorityOfCell[row["question_2"]]
              IN  IF Truthy(q1_id) /\ Truthy(q2_id)
                  THEN iterrows(Tail(rows), Append(acc, select(q1_id, q2_id, q1_p, q2_p)))
                  ELSE iterrows(Tail(rows), acc)

---------------------------------------------------------------------------
(* The source files of Spec *)

RECURSIVE SeqsUpTo(_, _)
SeqsUpTo(S, n) ==
    IF n = 0 THEN {<<>>}
    ELSE LET shorter == SeqsUpTo(S, n - 1) IN
         shorter \cup {Append(q, x) : q \in shorter, x \in S}

PairRows == {[question_1 |-> c1, question_2 |-> c2] : c1, c2 \in Cells}

\* rows of a file that has no question_2 column
LoneRows == {[question_1 |-> c1] : c1 \in Cells}

\* pairs for the batches one pair longer than MaxPairs
SamplePairs == {[question_1 |-> Q_a_advanced, question_2 |-> Q_b_ncert],
                [question_1 |-> Q_a_plain, question_2 |-> Q_b_ncert],
                [question_1 |-> Q_a_plain, question_2 |-> Q_a_advanced],
                [question_1 |-> Q_B_mains, question_2 |-> Q_c_mains]}

LongBatches == {r \in SeqsUpTo(SamplePairs, MaxPairs + 1) : Len(r) = MaxPairs + 1}

\* files that do not load, files without a question_2 column, spreadsheets, and
\* the longer batches
Files ==
    {[ext |-> ".txt", readable |-> TRUE, rows |-> <<>>]}
    \cup {[ext |-> e, readable |-> FALSE, rows |-> <<>>] : e \in {".xlsx", ".csv"}}
    \cup {[ext |-> ".csv", readable |-> TRUE, rows |-> r] : r \in LongBatches}
    \cup {[ext |-> ".xlsx", readable |-> TRUE, rows |-> r] : r \in SeqsUpTo(PairRows, 1)}
    \cup {[ext |-> ".csv", readable |-> TRUE, rows |-> r] : r \in SeqsUpTo(LoneRows, 1) \ {<<>>}}

\* a .csv file of k pairs, every pair of cells
CsvFile(rows) == [ext |-> ".csv", readable |-> TRUE, rows |-> rows]

Artifacts == {"final_selection_questions.csv", "question_id_priority_mapping.csv",
              "final_consolidated_question_report.csv"}

ConvertedCsv == "Duplicate_Detection_Report.csv"

\* datetime.now().strftime("%Y-%m-%d")
Dates == {"2026-01-31", "2026-02-01"}

TextIdle ==
    /\ question_text = <<>>
    /\ id_out = NotStarted
    /\ priority_out = 0
    /\ tpc = "idle"

Init ==
    /\ \/ file \in Files
       \/ \E k \in 0..MaxPairs : \E r \in [1..k -> PairRows] : file = CsvFile(r)
    /\ pc = "process_duplicates"
    /\ results = <<>>
    /\ heap = <<>>
    /\ results_df = 0
    /\ mapping = 0
    /\ consolidated = 0
    /\ written = {}
    /\ error = "NoError"
    /\ TextIdle

Abort(e) ==
    /\ pc' = "aborted"
    /\ error' = e

\* convert_xlsx_to_csv raises ValueError("Unsupported file format!")
process_duplicates_unsupported ==
    /\ pc = "process_duplicates"
    /\ file.ext \notin {".xlsx", ".csv"}
    /\ Abort("ValueError")
    /\ UNCHANGED <<file, results, heap, results_df, mapping, consolidated, written>>
    /\ UNCHANGED text_vars

\* pd.read_excel / pd.read_csv raises on a file it cannot parse
process_duplicates_unreadable ==
    /\ pc = "process_duplicates"
    /\ file.ext \in {".xlsx", ".csv"}
    /\ ~file.readable
    /\ Abort("ReadError")
    /\ UNCHANGED <<file, results, heap, results_df, mapping, consolidated, written>>
    /\ UNCHANGED text_vars

\* lines 57-82 on a file that loads
process_duplicates_loaded ==
    /\ pc = "process_duplicates"
    /\ file.ext \in {".xlsx", ".csv"}
    /\ file.readable
    /\ LET converted == IF file.ext = ".xlsx" THEN {ConvertedCsv} ELSE {}
           list == iterrows(file.rows, <<>>)
       IN  IF list = "KeyError"
           THEN /\ Abort("KeyError")
                /\ written' = written \cup converted
                /\ UNCHANGED <<results, heap, results_df>>
           ELSE LET frame == Alloc(heap, DataFrame(list))
                    unique == Alloc(frame.heap,
                                    drop_duplicates(frame.heap[frame.ref], "selected_question_id"))
                IN  /\ results' = list
                    /\ heap' = unique.heap
                    /\ results_df' = unique.ref
                    /\ written' = written \cup converted \cup {"final_selection_questions.csv"}
                    /\ pc' = "create_priority_mapping"
                    /\ UNCHANGED error
    /\ UNCHANGED <<file, mapping, consolidated>>
    /\ UNCHANGED text_vars

process_duplicates ==
    \/ process_duplicates_unsupported
    \/ process_duplicates_unreadable
    \/ process_duplicates_loaded

\* lines 84-91
create_priority_mapping ==
    /\ pc = "create_priority_mapping"
    /\ IF ~({"selected_question_id", "selected_priority"} \subseteq Range(heap[results_df].columns))
       THEN /\ Abort("KeyError")
            /\ UNCHANGED <<heap, mapping, written>>
       ELSE LET picked == Alloc(heap, getitem_columns(heap[results_df],
                                   <<"selected_question_id", "selected_priority">>))
                copy == DataFrameCopy(picked.heap, picked.ref)
                renamed == [copy.heap EXCEPT ![copy.ref] =
                              rename_columns(@, [c \in {"selected_question_id", "selected_priority"} |->
                                  IF c = "selected_question_id" THEN "question_id" ELSE "priority"])]
                labelled == [renamed EXCEPT ![copy.ref] =
                              setitem_column(@, "priority_label",
                                  series_map(column_values(@, "priority"), priority_labels))]
            IN  /\ heap' = labelled
                /\ mapping' = copy.ref
                /\ written' = written \cup {"question_id_priority_mapping.csv"}
                /\ pc' = "validate_and_report"
                /\ UNCHANGED error
    /\ UNCHANGED <<file, results, results_df, consolidated>>
    /\ UNCHANGED text_vars

\* lines 93-111; the distribution of lines 100-102 is only printed
validate_and_report ==
    /\ pc = "validate_and_report"
    /\ \E today \in Dates :
        IF \/ "selected_priority" \notin Range(heap[results_df].columns)
           \/ \E i \in 1..Len(heap[results_df].rows) :
                 heap[results_df].rows[i]["selected_priority"] \notin DOMAIN priority_labels
        THEN /\ Abort("KeyError")
             /\ UNCHANGED <<heap, consolidated, written>>
        ELSE LET copy == DataFrameCopy(heap, results_df)
                 labelled == [copy.heap EXCEPT ![copy.ref] =
                               setitem_column(@, "priority_label",
                                   series_map(column_values(@, "selected_priority"), priority_labels))]
                 dated == [labelled EXCEPT ![copy.ref] =
                               setitem_column(@, "processing_date",
                                   [i \in 1..Len(@.rows) |-> today])]
             IN  /\ heap' = dated
                 /\ consolidated' = copy.ref
                 /\ written' = written \cup {"final_consolidated_question_report.csv"}
                 /\ pc' = "done"
                 /\ UNCHANGED error
    /\ UNCHANGED <<file, results, results_df, mapping>>
    /\ UNCHANGED text_vars

Next == process_duplicates \/ create_priority_mapping \/ validate_and_report

Spec == Init /\ [][Next]_vars

---------------------------------------------------------------------------
(* Claims about main, under Spec *)

\* the file loads and every row has both cells
WellFormed ==
    /\ file.ext \in {".xlsx", ".csv"}
    /\ file.readable
    /\ \A i \in 1..Len(file.rows) : {"question_1", "question_2"} \subseteq DOMAIN file.rows[i]

\* the pairs for which extract_question_id returns an identifier on both sides
ResolvableIdx ==
    {i \in 1..Len(file.rows) :
        /\ IdOfCell[file.rows[i]["question_1"]] # None
        /\ IdOfCell[file.rows[i]["question_2"]] # None}

NthResolvable(k) ==
    CHOOSE i \in ResolvableIdx : Cardinality({j \in ResolvableIdx : j <= i}) = k

\* the SelectionResult the tier comparison asks for
ExpectedSelection(row) ==
    LET id1 == IdOfCell[row["question_1"]]
        id2 == IdOfCell[row["question_2"]]
        t1 == PriorityOfCell[row["question_1"]]
        t2 == PriorityOfCell[row["question_2"]]
    IN  IF t1 > t2
        THEN [selected_question_id |-> id2, rejected_question_id |-> id1,
              selected_priority |-> t2, rejected_priority |-> t1, chosen |-> "question_2"]
        ELSE [selected_question_id |-> id1, rejected_question_id |-> id2,
              selected_priority |-> t1, rejected_priority |-> t2, chosen |-> "question_1"]

SelectedBy(i) == ExpectedSelection(file.rows[i]).selected_question_id

\* the earliest resolvable pair that selects identifier id
EarliestSelecting(id) ==
    CHOOSE i \in ResolvableIdx :
        /\ SelectedBy(i) = id
        /\ \A j \in ResolvableIdx : SelectedBy(j) = id => i <= j

ResultRows == heap[results_df].rows

FixedLabel(tier) ==
    CASE tier = 1 -> "JEE Advanced"
      [] tier = 2 -> "JEE Mains"
      [] tier = 3 -> "NCERT"
      [] tier = 4 -> "Plain/Other"

\* C1: the result of process_duplicates has at most one row per selected
\* identifier, and that row is the SelectionResult of the earliest pair in input
\* order that selects the identifier.
C1_FirstSelectionKept ==
    results_df # 0 =>
        /\ \A m, n \in 1..Len(ResultRows) :
              ResultRows[m]["selected_question_id"] = ResultRows[n]["selected_question_id"] => m = n
        /\ \A m \in 1..Len(ResultRows) :
              /\ \E i \in ResolvableIdx : SelectedBy(i) = ResultRows[m]["selected_question_id"]
              /\ ResultRows[m] =
                   ExpectedSelection(file.rows[EarliestSelecting(ResultRows[m]["selected_question_id"])])

\* two pairs select the same identifier with different rejected identifier or
\* tiers, and the result holds the row of the earlier one only
C1_Witness ==
    /\ results_df # 0
    /\ \E i, j \in ResolvableIdx :
          /\ i < j
          /\ SelectedBy(i) = SelectedBy(j)
          /\ ExpectedSelection(file.rows[i]) # ExpectedSelection(file.rows[j])
          /\ EarliestSelecting(SelectedBy(i)) = i
          /\ \E m \in 1..Len(ResultRows) : ResultRows[m] = ExpectedSelection(file.rows[i])
          /\ \A m \in 1..Len(ResultRows) : ResultRows[m] # ExpectedSelection(file.rows[j])

\* C2: the SelectionResult emitted for a pair with both identifiers selects
\* question_1 when tier(question_1) <= tier(question_2) and question_2 otherwise;
\* with equal tiers the chosen side is question_1.
C2_TierComparison ==
    results_df # 0 =>
        /\ Len(results) = Cardinality(ResolvableIdx)
        /\ \A k \in 1..Len(results) :
              LET row == file.rows[NthResolvable(k)] IN
              /\ results[k] = ExpectedSelection(row)
              /\ PriorityOfCell[row["question_1"]] = PriorityOfCell[row["question_2"]]
                    => results[k]["chosen"] = "question_1"

\* a pair of two different identifiers with equal tiers was resolved to question_1
C2_Witness ==
    /\ results_df # 0
    /\ \E k \in 1..Len(results) :
          LET row == file.rows[NthResolvable(k)] IN
          /\ PriorityOfCell[row["question_1"]] = PriorityOfCell[row["question_2"]]
          /\ IdOfCell[row["question_1"]] # IdOfCell[row["question_2"]]
          /\ results[k]["chosen"] = "question_1"
          /\ results[k]["selected_question_id"] = IdOfCell[row["question_1"]]

\* C3: a pair with an absent identifier contributes no SelectionResult and causes
\* no error: the run on a well-formed file completes normally with the rows of
\* the remaining pairs, also when no pair of the batch has both identifiers.
C3_SkippedPairsCauseNoError ==
    WellFormed =>
        /\ pc # "aborted"
        /\ results_df # 0 => Len(results) = Cardinality(ResolvableIdx)

\* C4: main is all-or-nothing: it ends with all three artifacts written, or
\* aborts with none of them written.
C4_AllOrNothing ==
    /\ pc = "done" => Artifacts \subseteq written
    /\ pc = "aborted" => written \cap Artifacts = {}

\* C7: the mapping has one entry per SelectionResult row, in the same order, with
\* the row's selected identifier, its selected tier and the tier's fixed label;
\* no question_id occurs twice.
C7_MappingOnePerRow ==
    mapping # 0 =>
        /\ heap[mapping].columns = <<"question_id", "priority", "priority_label">>
        /\ Len(heap[mapping].rows) = Len(ResultRows)
        /\ \A i \in 1..Len(ResultRows) :
              heap[mapping].rows[i] =
                  [question_id |-> ResultRows[i]["selected_question_id"],
                   priority |-> ResultRows[i]["selected_priority"],
                   priority_label |-> FixedLabel(ResultRows[i]["selected_priority"])]
        /\ \A i, j \in 1..Len(heap[mapping].rows) :
              heap[mapping].rows[i]["question_id"] = heap[mapping].rows[j]["question_id"] => i = j

\* a mapping of two entries with different tiers was built
C7_Witness ==
    /\ mapping # 0
    /\ Len(heap[mapping].rows) >= 2
    /\ heap[mapping].rows[1]["priority_label"] # heap[mapping].rows[2]["priority_label"]
    /\ heap[mapping].rows[1]["question_id"] = ResultRows[1]["selected_question_id"]

\* C8: create_priority_mapping and validate_and_report leave the SelectionResult
\* frame as it was (same columns, same rows, same order), and the report they end
\* with has one row per SelectionResult, equal to it on the five selection
\* columns and extended with the label of its selected tier and a date; it has
\* the rows of the mapping.
C8_ResultsUnchanged ==
    [][/\ results_df # 0 =>
            /\ results_df' = results_df
            /\ heap'[results_df] = heap[results_df]
       /\ consolidated' # 0 =>
            LET report == heap'[consolidated']
                rows == heap'[results_df'].rows
            IN  /\ consolidated' # results_df'
                /\ report.columns = SelectionColumns \o <<"priority_label", "processing_date">>
                /\ Len(report.rows) = Len(rows)
                /\ \A i \in 1..Len(rows) :
                      /\ \A c \in Range(SelectionColumns) : report.rows[i][c] = rows[i][c]
                      /\ report.rows[i]["priority_label"] = FixedLabel(rows[i]["selected_priority"])
                      /\ report.rows[i]["processing_date"] \in Dates
                      /\ report.rows[i]["selected_question_id"] = heap'[mapping'].rows[i]["question_id"]
                /\ Len(heap'[mapping'].rows) = Len(report.rows)
      ]_vars

\* the report of a result of two rows was built and the result still has its
\* five columns
C8_Witness ==
    /\ pc = "done"
    /\ Len(ResultRows) >= 2
    /\ Len(heap[consolidated].rows) = Len(ResultRows)
    /\ heap[results_df].columns = SelectionColumns

\* C10: with at least one resolvable pair, the selected identifiers of the result
\* are exactly those selected by the resolvable pairs, one row each, in the input
\* order of the pairs they came from.
C10_NoIdentifierLost ==
    (results_df # 0 /\ ResolvableIdx # {}) =>
        /\ {ResultRows[m]["selected_question_id"] : m \in 1..Len(ResultRows)}
              = {SelectedBy(i) : i \in ResolvableIdx}
        /\ Len(ResultRows) = Cardinality({SelectedBy(i) : i \in ResolvableIdx})
        /\ \A m, n \in 1..Len(ResultRows) :
              m < n => EarliestSelecting(ResultRows[m]["selected_question_id"])
                         < EarliestSelecting(ResultRows[n]["selected_question_id"])

\* three resolvable pairs, the third selecting the identifier of the first: the
\* result keeps the two identifiers in input order
C10_Witness ==
    /\ results_df # 0
    /\ Cardinality(ResolvableIdx) >= 3
    /\ Len(results) > Len(ResultRows)
    /\ Len(ResultRows) >= 2
    /\ ResultRows[1]["selected_question_id"] = SelectedBy(1)
    /\ ResultRows[2]["selected_question_id"] # SelectedBy(1)

---------------------------------------------------------------------------
(* Claims about the two functions, under SpecText *)

HexDigitsLower == {"0","1","2","3","4","5","6","7","8","9","a","b","c","d","e","f"}

HexDigitsUpper == {"A","B","C","D","E","F"}

ColonOrWhitespace == {":", " ", "\t", "\n", "\r", "\f"}

\* "Question ID" in any letter case stands at position p of s
TagAt(s, p) ==
    /\ p + 10 <= Len(s)
    /\ str_lower(SubSeq(s, p, p + 10)) = <<"q","u","e","s","t","i","o","n"," ","i","d">>

\* the positions q at which a tag standing at p is followed, after separators
\* only, by 24 hexadecimal characters
IdStartsAfter(s, p) ==
    {q \in (p + 11)..(Len(s) - 23) :
        /\ \A j \in (p + 11)..(q - 1) : s[j] \in ColonOrWhitespace
        /\ \A j \in q..(q + 23) : s[j] \in HexDigitsLower \cup HexDigitsUpper}

TaggedAt(s) == {p \in 1..Len(s) : TagAt(s, p) /\ IdStartsAfter(s, p) # {}}

FirstTagged(s) == CHOOSE p \in TaggedAt(s) : \A r \in TaggedAt(s) : p <= r

FirstTaggedId(s) ==
    LET q == CHOOSE x \in IdStartsAfter(s, FirstTagged(s)) : TRUE
    IN  SubSeq(s, q, q + 23)

\* a keyword occurs in s, whatever the letter case of s
OccursIgnoringCase(kw, s) ==
    \E i \in 1..(Len(s) - Len(kw) + 1) :
        \A k \in 1..Len(kw) : s[i + k - 1] = kw[k] \/ chr_lower(s[i + k - 1]) = kw[k]

HasTier1Keyword(s) == \E kw \in AdvancedKeywords : OccursIgnoringCase(kw, s)

HasTier2Keyword(s) == \E kw \in MainsKeywords : OccursIgnoringCase(kw, s)

HasTier3Keyword(s) == OccursIgnoringCase(kw_ncert, s)

\* C5: get_priority is total and returns the tier of the first satisfied keyword
\* group in the order tier 1, tier 2, tier 3 (case-insensitive containment), and 4
\* when no group matches or the field is null or empty; a tier-1 keyword yields 1
\* whatever else the text holds.
C5_PriorityPrecedence ==
    tpc = "classified" =>
        /\ priority_out \in 1..4
        /\ priority_out =
             IF question_text = NaN \/ question_text = <<>> THEN 4
             ELSE IF HasTier1Keyword(question_text) THEN 1
             ELSE IF HasTier2Keyword(question_text) THEN 2
             ELSE IF HasTier3Keyword(question_text) THEN 3
             ELSE 4

\* a text with a tier-1, a tier-2 and a tier-3 keyword was classified as tier 1
C5_Witness ==
    /\ tpc = "classified"
    /\ question_text # NaN
    /\ HasTier1Keyword(question_text)
    /\ HasTier2Keyword(question_text)
    /\ HasTier3Keyword(question_text)
    /\ priority_out = 1

\* C6: extract_question_id returns the 24 characters of the first "Question ID"
\* tag (any letter case) that is followed, after optional colon/whitespace
\* separators, by 24 hexadecimal characters, and None for a null or empty field
\* and for a text with no such tag.
C6_ExtractFirstMatch ==
    tpc # "call" =>
        id_out =
            IF question_text = NaN \/ question_text = <<>> THEN None
            ELSE IF TaggedAt(question_text) = {} THEN None
            ELSE FirstTaggedId(question_text)

\* a text with two tagged identifiers, which differ: the first was returned
C6_Witness ==
    /\ tpc # "call"
    /\ question_text # NaN
    /\ Cardinality(TaggedAt(question_text)) >= 2
    /\ \E p \in TaggedAt(question_text) : \E q \in IdStartsAfter(question_text, p) :
          SubSeq(question_text, q, q + 23) # FirstTaggedId(question_text)
    /\ id_out = FirstTaggedId(question_text)

\* C9 as stated: every identifier returned is 24 lowercase hexadecimal characters.
C9_LowercaseHex ==
    (tpc # "call" /\ id_out # None) =>
        /\ Len(id_out) = 24
        /\ \A k \in 1..Len(id_out) : id_out[k] \in HexDigitsLower

\* C9 amended: every identifier returned is 24 hexadecimal characters in the
\* letter case the text writes them in (0-9, a-f, A-F): it stands verbatim in the
\* text and is not lowercased.
C9_HexAsWritten ==
    (tpc # "call" /\ id_out # None) =>
        /\ Len(id_out) = 24
        /\ \A k \in 1..Len(id_out) : id_out[k] \in HexDigitsLower \cup HexDigitsUpper
        /\ \E q \in 1..(Len(question_text) - 23) :
              SubSeq(question_text, q, q + 23) = id_out

\* an identifier written with upper-case hex letters was returned as written
C9_Witness ==
    /\ tpc # "call"
    /\ id_out # None
    /\ \E k \in 1..Len(id_out) : id_out[k] \in HexDigitsUpper

====
